---- MODULE Spec2Model ----
(***************************************************************************)
(* Model of the image ingestion server (src/server/src/main.rs).           *)
(*                                                                         *)
(* One ingestion-trigger call (fetch_and_insert_images) obtains a page of  *)
(* descriptors, fetch_images spawns one ingestion task per descriptor      *)
(* behind a semaphore of 5 permits, each task tees its network stream to   *)
(* a file and to an mpsc queue read by a blocking decode worker through    *)
(* Buffer (Read / BufRead / Seek), and the handler inserts one row per     *)
(* successful task.                                                        *)
(*                                                                         *)
(* Bytes of a body are modelled by their offsets 1..n, so that loss,       *)
(* duplication and reordering are visible.  The image decoder is a library *)
(* outside the repository: it is modelled as a caller that may issue any   *)
(* sequence of read / fill_buf / consume / seek calls on Buffer and then   *)
(* returns Ok or Err.                                                      *)
(***************************************************************************)
EXTENDS Integers, Sequences, FiniteSets, TLC

\* ------------------------------------------------------------------ bounds
MaxLen    == 3      \* longest body, in bytes
MaxRead   == 2      \* largest buf.len() / consume amount the decoder passes
MaxCalls  == 4      \* calls a decode worker issues on Buffer before it returns
PairCalls == 1      \* the same, when two images are ingested side by side
MaxImages == 6      \* largest page of descriptors
MaxFetches == 3     \* try_fetch tasks the gallery client spawns
MaxBatch  == 2      \* most images in one response to the client

\* ------------------------------------------------------- program constants
Permits == 5        \* Semaphore::new(5)
DefaultLimit == 10  \* params.limit.unwrap_or(10)
MaxLimit == 50      \* .min(50)

VARIABLES
    images,     \* input: the descriptors of all calls, in page order
    owner,      \* input: owner[t] = the call that descriptor t belongs to
    limit,      \* input, per call: params.limit, << >> for None and << n >> for Some(n)
    cpc,        \* per call: position of fetch_and_insert_images
    sem,        \* per call: permits available in the call's semaphore
    results,    \* per call: the list join_all returned
    nxt,        \* per call: index of the next result the insert loop handles
    rows,       \* storage: the tasks whose metadata row was inserted
    resp,       \* per call: inserted_images, the tasks reported as successes
    pc,         \* per task: position of the spawned ingestion task
    holds,      \* per task: the task owns a SemaphorePermit (lock)
    net,        \* per task: chunks the network stream has yet to deliver
    created,    \* per task: File::create succeeded, the file exists on disk
    file,       \* per task: bytes written to the file
    queue,      \* per task: chunks in the mpsc channel
    sender,     \* per task: the Sender is alive
    receiver,   \* per task: the Receiver (owned by Buffer) is alive
    buffer,     \* per task: Buffer.buffer
    position,   \* per task: Buffer.position
    dec,        \* per task: state of the decode worker
    pend,       \* per task: the Buffer call blocked in read_channel (0 none, n read(n), -1 fill_buf)
    result,     \* per task: what the spawned task returned
    \* history variables
    ncalls,     \* per task: Buffer calls the decode worker has issued
    released,   \* per task: number of times the permit was released
    got,        \* per task: bytes returned by Buffer::read so far
    lastRet,    \* per task: value returned by the last Buffer::read (-1 none)
    moved,      \* per task: seek or consume has been called
    filled,     \* per task: what the last Buffer::fill_buf returned (<< >> none)
    sentinels,  \* per task: empty chunks put on the queue
    enq,        \* per task: bytes put on the queue
    firstDone,  \* the first task that finished (0 none)
    \* the gallery client (src/frontend/src/main.rs)
    page,       \* State.page
    gallery,    \* State.images: for every image, the page it was fetched with
    loading,    \* State.loading
    fpc,        \* per try_fetch task: its position
    fpage,      \* per try_fetch task: the page it read for its request (-1 none)
    outcome     \* per try_fetch task: how it ended ("" not yet)

vars == << images, owner, limit, cpc, sem, results, nxt, rows, resp, pc, holds, net,
           created, file, queue, sender, receiver, buffer, position, dec, pend,
           result, ncalls, released, got, lastRet, moved, filled, sentinels,
           enq,
           firstDone, page, gallery, loading, fpc, fpage, outcome >>

clientVars == << page, gallery, loading, fpc, fpage, outcome >>

\* what no action of the server changes: its inputs, and the client's state
inputVars == << images, owner, limit, clientVars >>
callVars  == << cpc, results, nxt, rows, resp >>
lockVars  == << holds, sem, released >>
diskVars  == << net, created, file >>
chanVars  == << queue, sender, receiver, sentinels, enq >>
bufVars   == << buffer, position, got, lastRet, moved, filled >>
decVars   == << dec, pend, ncalls >>
retVars   == << pc, result, firstDone >>

\* ----------------------------------------------------------------- helpers
Tasks == 1..Len(images)
Calls == DOMAIN cpc
TasksOf(c) == { t \in Tasks : owner[t] = c }

RECURSIVE Flat(_)
Flat(chunks) == IF chunks = << >> THEN << >> ELSE Head(chunks) \o Flat(Tail(chunks))

RECURSIVE SumSeq(_)
SumSeq(s) == IF s = << >> THEN 0 ELSE Head(s) + SumSeq(Tail(s))

Min(a, b) == IF a <= b THEN a ELSE b

IsPrefix(s, w) == Len(s) <= Len(w) /\ s = SubSeq(w, 1, Len(s))

\* the body of n bytes
Body(n) == [i \in 1..n |-> i]

\* every way of cutting n bytes into non-empty chunks, as chunk lengths
Chunkings(n) ==
    { ls \in UNION { [1..k -> 1..n] : k \in 0..n } : SumSeq(ls) = n }

RECURSIVE Cut(_, _)
Cut(bytes, ls) ==
    IF ls = << >> THEN << >>
    ELSE << SubSeq(bytes, 1, Head(ls)) >>
         \o Cut(SubSeq(bytes, Head(ls) + 1, Len(bytes)), Tail(ls))

\* a descriptor: is its download_url reachable, the chunks its body arrives in,
\* and the number of calls the decoder issues on such an image at most
Dead == [up |-> FALSE, chunks |-> << >>, calls |-> 0]
Live(n, k) ==
    { [up |-> TRUE, chunks |-> Cut(Body(n), ls), calls |-> k] : ls \in Chunkings(n) }

BodyOf(t) == Flat(images[t].chunks)

\* the pages a call may be given
Small == {Dead} \cup Live(0, PairCalls) \cup Live(1, PairCalls)

Scenarios ==
    \* one descriptor, any body in any chunking
    { << d >> : d \in {Dead} \cup UNION { Live(n, MaxCalls) : n \in 0..MaxLen } }
    \* two descriptors with short bodies
    \cup { << a, b >> : a \in Small, b \in Small }
    \* a page of descriptors whose download_url cannot be reached
    \cup { [i \in 1..k |-> Dead] : k \in 0..MaxImages }

\* the limit parameters a call is given: they are varied on the pages whose
\* tasks are short
LimitParams(descs) ==
    IF \A i \in DOMAIN descs : ~descs[i].up
    THEN { << >>, << 1 >>, << MaxLimit + DefaultLimit >> }
    ELSE { << >> }

\* let limit = params.limit.unwrap_or(10).min(50)
Limit(c) == Min(IF limit[c] = << >> THEN DefaultLimit ELSE limit[c][1], MaxLimit)

\* the calls the descriptors belong to: one call that is given them all, or,
\* when their tasks are short, two calls of the handler that overlap in time,
\* the first given the leading k descriptors and the second the others
Owners(descs) ==
    { [t \in 1..Len(descs) |-> 1] }
    \cup IF \A i \in DOMAIN descs : ~descs[i].up
         THEN { [t \in 1..Len(descs) |-> IF t <= k THEN 1 ELSE 2] :
                    k \in 1..(Len(descs) - 1) }
         ELSE {}

NumCalls(own) == IF \E t \in DOMAIN own : own[t] = 2 THEN 2 ELSE 1

\* -------------------------------------------------------------------- Init
Init ==
    /\ images \in Scenarios
    /\ owner \in Owners(images)
    /\ limit \in IF NumCalls(owner) = 1
                 THEN { << l >> : l \in LimitParams(images) }
                 ELSE { << << >>, << >> >> }
    /\ cpc = [c \in 1..NumCalls(owner) |-> "catalog"]
    /\ sem = [c \in 1..NumCalls(owner) |-> 0]
    /\ results = [c \in 1..NumCalls(owner) |-> << >>]
    /\ nxt = [c \in 1..NumCalls(owner) |-> 1]
    /\ rows = {}
    /\ resp = [c \in 1..NumCalls(owner) |-> << >>]
    /\ pc = [t \in Tasks |-> "unborn"]
    /\ holds = [t \in Tasks |-> FALSE]
    /\ net = [t \in Tasks |-> images[t].chunks]
    /\ created = [t \in Tasks |-> FALSE]
    /\ file = [t \in Tasks |-> << >>]
    /\ queue = [t \in Tasks |-> << >>]
    /\ sender = [t \in Tasks |-> FALSE]
    /\ receiver = [t \in Tasks |-> FALSE]
    /\ buffer = [t \in Tasks |-> << >>]
    /\ position = [t \in Tasks |-> 0]
    /\ dec = [t \in Tasks |-> "none"]
    /\ pend = [t \in Tasks |-> 0]
    /\ result = [t \in Tasks |-> "none"]
    /\ ncalls = [t \in Tasks |-> 0]
    /\ released = [t \in Tasks |-> 0]
    /\ got = [t \in Tasks |-> << >>]
    /\ lastRet = [t \in Tasks |-> -1]
    /\ moved = [t \in Tasks |-> FALSE]
    /\ filled = [t \in Tasks |-> << >>]
    /\ sentinels = [t \in Tasks |-> 0]
    /\ enq = [t \in Tasks |-> << >>]
    /\ firstDone = 0
    /\ page = 0
    /\ gallery = << >>
    /\ loading = FALSE
    /\ fpc = [f \in 1..MaxFetches |-> "idle"]
    /\ fpage = [f \in 1..MaxFetches |-> -1]
    /\ outcome = [f \in 1..MaxFetches |-> ""]

\* ------------------------------------------------- the permit (lines 202-209)
\* variant: acquire never waits
CanAcquireAlways(c) == TRUE

\* Semaphore::acquire completes only while a permit is available
CanAcquire(c) == sem[c] > 0

\* semaphore.acquire().await
Acquire(t) ==
    /\ pc[t] = "acquire"
    /\ CanAcquire(owner[t])
    /\ sem' = [sem EXCEPT ![owner[t]] = @ - 1]
    /\ holds' = [holds EXCEPT ![t] = TRUE]
    /\ pc' = [pc EXCEPT ![t] = "request"]
    /\ UNCHANGED << inputVars, callVars, released, diskVars, chanVars, bufVars,
                    decVars, result, firstDone >>

\* the SemaphorePermit is dropped: drop(lock), or the scope of `lock` ends
DropLock(t) ==
    /\ holds' = [holds EXCEPT ![t] = FALSE]
    /\ sem' = [sem EXCEPT ![owner[t]] = @ + 1]
    /\ released' = [released EXCEPT ![t] = @ + 1]

\* the spawned task returns r
Return(t, r) ==
    /\ pc' = [pc EXCEPT ![t] = "done"]
    /\ result' = [result EXCEPT ![t] = r]
    /\ firstDone' = IF firstDone = 0 THEN t ELSE firstDone

\* sender.send(chunk): the chunk is queued unless the Receiver is gone
Push(t, chunk) == IF receiver[t] THEN Append(queue[t], chunk) ELSE queue[t]

Send(t, chunk) ==
    /\ queue' = [queue EXCEPT ![t] = Push(t, chunk)]
    /\ sentinels' = [sentinels EXCEPT ![t] =
                        IF receiver[t] /\ chunk = << >> THEN @ + 1 ELSE @]
    /\ enq' = [enq EXCEPT ![t] = IF receiver[t] THEN @ \o chunk ELSE @]

\* --------------------------------------- the ingestion task (lines 208-261)
\* reqwest::get(image.download_url).await? and mpsc::channel()
Request(t) ==
    /\ pc[t] = "request"
    /\ \/ /\ images[t].up
          /\ pc' = [pc EXCEPT ![t] = "create"]
          /\ sender' = [sender EXCEPT ![t] = TRUE]
          /\ receiver' = [receiver EXCEPT ![t] = TRUE]
          /\ UNCHANGED << lockVars, result, firstDone >>
       \/ /\ ~images[t].up
          /\ Return(t, "request error")
          /\ DropLock(t)
          /\ UNCHANGED << sender, receiver >>
    /\ UNCHANGED << inputVars, callVars, diskVars, queue, sentinels, enq,
                    bufVars, decVars >>

\* File::create(path).await? and tokio::task::spawn_blocking
Create(t) ==
    /\ pc[t] = "create"
    /\ \/ /\ created' = [created EXCEPT ![t] = TRUE]
          /\ dec' = [dec EXCEPT ![t] = "run"]
          /\ pc' = [pc EXCEPT ![t] = "copy"]
          /\ UNCHANGED << lockVars, result, firstDone, sender, receiver >>
       \/ /\ Return(t, "create error")
          /\ DropLock(t)
          /\ sender' = [sender EXCEPT ![t] = FALSE]
          /\ receiver' = [receiver EXCEPT ![t] = FALSE]
          /\ UNCHANGED << created, dec >>
    /\ UNCHANGED << inputVars, callVars, net, file, queue, sentinels, enq,
                    bufVars, pend, ncalls >>

\* variant: a chunk whose forwarding failed is not written to the file
CopyChunkSkipWrite(t) ==
    /\ pc[t] = "copy"
    /\ net[t] # << >>
    /\ Send(t, Head(net[t]))
    /\ file' = [file EXCEPT ![t] = IF receiver[t] THEN @ \o Head(net[t]) ELSE @]
    /\ net' = [net EXCEPT ![t] = Tail(@)]
    /\ UNCHANGED << inputVars, callVars, lockVars, created, sender, receiver,
                    bufVars, decVars, retVars >>

\* tokio::io::copy: one read of the InspectReader that returns bytes, and
\* the write of those bytes to the file
CopyChunk(t) ==
    /\ pc[t] = "copy"
    /\ net[t] # << >>
    /\ Send(t, Head(net[t]))
    /\ file' = [file EXCEPT ![t] = @ \o Head(net[t])]
    /\ net' = [net EXCEPT ![t] = Tail(@)]
    /\ UNCHANGED << inputVars, callVars, lockVars, created, sender, receiver,
                    bufVars, decVars, retVars >>

\* tokio::io::copy: the read at end of stream returns no bytes, the closure of
\* the InspectReader is called with the empty slice, the file is flushed
CopyEof(t) ==
    /\ pc[t] = "copy"
    /\ net[t] = << >>
    /\ Send(t, << >>)
    /\ pc' = [pc EXCEPT ![t] = "finish"]
    /\ UNCHANGED << inputVars, callVars, lockVars, diskVars, sender, receiver,
                    bufVars, decVars, result, firstDone >>

\* variant: the permit is leaked when the copy fails
CopyFailLeak(t) ==
    /\ pc[t] = "copy"
    /\ Return(t, "copy error")
    /\ sender' = [sender EXCEPT ![t] = FALSE]
    /\ UNCHANGED << inputVars, callVars, lockVars, diskVars, queue, receiver,
                    sentinels, enq, bufVars, decVars >>

\* tokio::io::copy(..).await? fails: the stream or the write returned an error
CopyFail(t) ==
    /\ pc[t] = "copy"
    /\ Return(t, "copy error")
    /\ DropLock(t)
    /\ sender' = [sender EXCEPT ![t] = FALSE]
    /\ UNCHANGED << inputVars, callVars, diskVars, queue, receiver, sentinels,
                    enq, bufVars, decVars >>

\* variant: the permit is kept while the task waits for the decode worker
FinishHoldingLock(t) ==
    /\ pc[t] = "finish"
    /\ Send(t, << >>)
    /\ pc' = [pc EXCEPT ![t] = "join"]
    /\ UNCHANGED << inputVars, callVars, lockVars, diskVars, sender, receiver,
                    bufVars, decVars, result, firstDone >>

\* let _ = sender.send(vec![]); drop(lock);
Finish(t) ==
    /\ pc[t] = "finish"
    /\ Send(t, << >>)
    /\ DropLock(t)
    /\ pc' = [pc EXCEPT ![t] = "join"]
    /\ UNCHANGED << inputVars, callVars, diskVars, sender, receiver, bufVars,
                    decVars, result, firstDone >>

\* variant: the failed decode of a sibling fails every task of the batch
JoinResultOfBatch(t) ==
    CASE dec[t] = "panic" -> "join error"
      [] dec[t] = "ok" /\ \A u \in TasksOf(owner[t]) : dec[u] \notin {"err", "eof"} -> "ok"
      [] OTHER -> "decode error"

\* ret?: the worker's Ok(image), its error, or the JoinError of its panic
JoinResult(t) ==
    CASE dec[t] = "ok"    -> "ok"
      [] dec[t] = "err"   -> "decode error"
      [] dec[t] = "eof"   -> "decode error"
      [] dec[t] = "panic" -> "join error"

\* the decode worker has returned or panicked: handle.await completes
Decoded(t) == dec[t] \in {"ok", "err", "eof", "panic"}

\* variant: the task does not wait for the decode worker
JoinRaced(t) ==
    /\ pc[t] = "join"
    /\ Return(t, IF dec[t] = "ok" THEN "ok" ELSE "decode error")
    /\ sender' = [sender EXCEPT ![t] = FALSE]
    /\ UNCHANGED << inputVars, callVars, lockVars, diskVars, queue, receiver,
                    sentinels, enq, bufVars, decVars >>

\* let ret = handle.await; ret?
Join(t) ==
    /\ pc[t] = "join"
    /\ Decoded(t)
    /\ Return(t, JoinResult(t))
    /\ sender' = [sender EXCEPT ![t] = FALSE]
    /\ UNCHANGED << inputVars, callVars, lockVars, diskVars, queue, receiver,
                    sentinels, enq, bufVars, decVars >>

\* ------------------------------------ Buffer and the decode worker (225-340)
\* the worker's closure ends: Buffer, and with it the Receiver, is dropped
EndDecode(t, how) ==
    /\ dec' = [dec EXCEPT ![t] = how]
    /\ pend' = [pend EXCEPT ![t] = 0]
    /\ receiver' = [receiver EXCEPT ![t] = FALSE]
    /\ queue' = [queue EXCEPT ![t] = << >>]

\* the number of bytes the loop of Buffer::read copies: buffer.len() - position
\* is a usize subtraction, it panics when position is past the end
ReadCount(buf, pos, n) == Min(Len(buf) - pos, n)

\* the loop of Buffer::read over buffer `buf`, for a destination of n bytes
CopyOut(t, n, buf) ==
    IF position[t] > Len(buf)
    THEN /\ EndDecode(t, "panic")
         /\ UNCHANGED << position, got, lastRet >>
    ELSE /\ got' = [got EXCEPT ![t] =
                      @ \o SubSeq(buf, position[t] + 1,
                                  position[t] + ReadCount(buf, position[t], n))]
         /\ position' = [position EXCEPT ![t] = @ + ReadCount(buf, position[t], n)]
         /\ lastRet' = [lastRet EXCEPT ![t] = ReadCount(buf, position[t], n)]
         /\ pend' = [pend EXCEPT ![t] = 0]
         /\ UNCHANGED << dec, receiver >>

\* variant: the refill test is off by one
NeedsChannelStrict(t) == position[t] > Len(buffer[t])

\* Buffer::read refills from the channel only when everything was handed out
NeedsChannel(t) == position[t] >= Len(buffer[t])

\* the decode worker may issue another call on Buffer
Calling(t) ==
    /\ dec[t] = "run"
    /\ pend[t] = 0
    /\ ncalls[t] < images[t].calls

\* Buffer::read(buf) with buf.len() = n, up to the blocking recv
Read(t, n) ==
    /\ Calling(t)
    /\ ncalls' = [ncalls EXCEPT ![t] = @ + 1]
    /\ IF NeedsChannel(t)
       THEN /\ pend' = [pend EXCEPT ![t] = n]
            /\ UNCHANGED << dec, receiver, queue, position, got, lastRet >>
       ELSE /\ CopyOut(t, n, buffer[t])
            /\ UNCHANGED queue
    /\ UNCHANGED << inputVars, callVars, lockVars, diskVars, sender, sentinels,
                    enq, buffer, moved, filled, retVars >>

\* the slice Buffer::fill_buf returns once read_channel has returned:
\* Ok(&self.buffer), whatever the position
FillBufSlice(buf, pos) == buf

\* Buffer::fill_buf, up to the blocking recv
FillBuf(t) ==
    /\ Calling(t)
    /\ ncalls' = [ncalls EXCEPT ![t] = @ + 1]
    /\ pend' = [pend EXCEPT ![t] = -1]
    /\ UNCHANGED << inputVars, callVars, lockVars, diskVars, chanVars, bufVars,
                    dec, retVars >>

\* variant: the chunk received replaces the buffer instead of extending it
RecvChunkReplace(t) ==
    /\ dec[t] = "run"
    /\ pend[t] # 0
    /\ queue[t] # << >>
    /\ buffer' = [buffer EXCEPT ![t] = Head(queue[t])]
    /\ IF pend[t] > 0
       THEN /\ CopyOut(t, pend[t], Head(queue[t]))
            /\ UNCHANGED filled
            /\ queue' = IF position[t] > Len(Head(queue[t]))
                        THEN [queue EXCEPT ![t] = << >>]
                        ELSE [queue EXCEPT ![t] = Tail(@)]
       ELSE /\ pend' = [pend EXCEPT ![t] = 0]
            /\ queue' = [queue EXCEPT ![t] = Tail(@)]
            /\ filled' = [filled EXCEPT ![t] =
                            << [slice |-> FillBufSlice(buffer'[t], position[t]),
                                at |-> position[t],
                                have |-> Len(buffer'[t])] >>]
            /\ UNCHANGED << dec, receiver, position, got, lastRet >>
    /\ UNCHANGED << inputVars, callVars, lockVars, diskVars, sender, sentinels,
                    enq, moved, ncalls, retVars >>

\* Buffer::read_channel: recv returns a chunk, and the call that waited goes on
RecvChunk(t) ==
    /\ dec[t] = "run"
    /\ pend[t] # 0
    /\ queue[t] # << >>
    /\ buffer' = [buffer EXCEPT ![t] = @ \o Head(queue[t])]
    /\ IF pend[t] > 0
       THEN /\ CopyOut(t, pend[t], buffer[t] \o Head(queue[t]))
            /\ UNCHANGED filled
            /\ queue' = IF position[t] > Len(buffer[t] \o Head(queue[t]))
                        THEN [queue EXCEPT ![t] = << >>]
                        ELSE [queue EXCEPT ![t] = Tail(@)]
       ELSE /\ pend' = [pend EXCEPT ![t] = 0]
            /\ queue' = [queue EXCEPT ![t] = Tail(@)]
            /\ filled' = [filled EXCEPT ![t] =
                            << [slice |-> FillBufSlice(buffer'[t], position[t]),
                                at |-> position[t],
                                have |-> Len(buffer'[t])] >>]
            /\ UNCHANGED << dec, receiver, position, got, lastRet >>
    /\ UNCHANGED << inputVars, callVars, lockVars, diskVars, sender, sentinels,
                    enq, moved, ncalls, retVars >>

\* variant: a closed channel is taken for the end of the stream, read returns 0
RecvClosedAsEnd(t) ==
    /\ dec[t] = "run"
    /\ pend[t] # 0
    /\ queue[t] = << >>
    /\ ~sender[t]
    /\ pend' = [pend EXCEPT ![t] = 0]
    /\ lastRet' = [lastRet EXCEPT ![t] = IF pend[t] > 0 THEN 0 ELSE @]
    /\ UNCHANGED << inputVars, callVars, lockVars, diskVars, chanVars, buffer,
                    position, got, moved, filled, dec, ncalls, retVars >>

\* Buffer::read_channel: recv fails, the queue is empty and the Sender is gone;
\* the UnexpectedEof error ends the decode ("eof": the stream was truncated)
RecvClosed(t) ==
    /\ dec[t] = "run"
    /\ pend[t] # 0
    /\ queue[t] = << >>
    /\ ~sender[t]
    /\ EndDecode(t, "eof")
    /\ UNCHANGED << inputVars, callVars, lockVars, diskVars, sender, sentinels,
                    enq, bufVars, ncalls, retVars >>

\* Buffer::consume(amount)
Consume(t, amount) ==
    /\ Calling(t)
    /\ ncalls' = [ncalls EXCEPT ![t] = @ + 1]
    /\ position' = [position EXCEPT ![t] = Min(Len(buffer[t]), @ + amount)]
    /\ moved' = [moved EXCEPT ![t] = TRUE]
    /\ UNCHANGED << inputVars, callVars, lockVars, diskVars, chanVars, buffer,
                    got, lastRet, filled, dec, pend, retVars >>

\* Buffer::seek: new_pos is the offset of SeekFrom::Start, or position plus the
\* offset of SeekFrom::Current; a negative new_pos is an error and moves nothing
SeekTo(t, new_pos) ==
    /\ Calling(t)
    /\ ncalls' = [ncalls EXCEPT ![t] = @ + 1]
    /\ position' = [position EXCEPT ![t] = IF new_pos < 0 THEN @ ELSE new_pos]
    /\ moved' = [moved EXCEPT ![t] = TRUE]
    /\ UNCHANGED << inputVars, callVars, lockVars, diskVars, chanVars, buffer,
                    got, lastRet, filled, dec, pend, retVars >>

Seek(t) ==
    \/ \E offset \in 0..(Len(BodyOf(t)) + 1) : SeekTo(t, offset)
    \/ \E offset \in {-1, 1} : SeekTo(t, position[t] + offset)

\* the closure of spawn_blocking returns Ok(Image): the format was guessed from
\* the leading bytes, so some byte was read
DecodeOk(t) ==
    /\ dec[t] = "run"
    /\ pend[t] = 0
    /\ got[t] # << >>
    /\ EndDecode(t, "ok")
    /\ UNCHANGED << inputVars, callVars, lockVars, diskVars, sender, sentinels,
                    enq, bufVars, ncalls, retVars >>

\* the closure of spawn_blocking returns an error of the decoder
DecodeErr(t) ==
    /\ dec[t] = "run"
    /\ pend[t] = 0
    /\ ncalls[t] >= 1
    /\ EndDecode(t, "err")
    /\ UNCHANGED << inputVars, callVars, lockVars, diskVars, sender, sentinels,
                    enq, bufVars, ncalls, retVars >>

\* ------------------------------------------ the handler (lines 124-183, 190-266)
taskVars == << lockVars, diskVars, chanVars, bufVars, decVars, retVars >>

\* the i-th task of call c
TaskAt(c, i) == Cardinality({ t \in Tasks : owner[t] < c }) + i

\* variant: the outputs are collected as the tasks complete, the first one first
OutputsAsCompleted(c) ==
    LET n == Cardinality(TasksOf(c))
        inOrder == [i \in 1..n |-> TaskAt(c, i)]
        order == IF firstDone \in TasksOf(c)
                 THEN << firstDone >> \o SelectSeq(inOrder, LAMBDA t : t # firstDone)
                 ELSE inOrder
    IN  [i \in 1..n |-> result[order[i]]]

\* what join_all returns: the output of every future, in the order of the input
Outputs(c) == [i \in 1..Cardinality(TasksOf(c)) |-> result[TaskAt(c, i)]]

\* the catalog request or its JSON fails: fetch_images returns Err, status 500
CatalogFail(c) ==
    /\ cpc[c] = "catalog"
    /\ cpc' = [cpc EXCEPT ![c] = "error"]
    /\ UNCHANGED << inputVars, results, nxt, rows, resp, taskVars >>

\* the page arrives: Semaphore::new(5), and join_all spawns one task per descriptor
Spawn(c) ==
    /\ cpc[c] = "catalog"
    /\ cpc' = [cpc EXCEPT ![c] = "running"]
    /\ sem' = [sem EXCEPT ![c] = Permits]
    /\ pc' = [t \in Tasks |-> IF owner[t] = c THEN "acquire" ELSE pc[t]]
    /\ UNCHANGED << inputVars, results, nxt, rows, resp, holds, released,
                    diskVars, chanVars, bufVars, decVars, result, firstDone >>

\* join_all(images).await completes once every task has returned
JoinAll(c) ==
    /\ cpc[c] = "running"
    /\ \A t \in TasksOf(c) : pc[t] = "done"
    /\ results' = [results EXCEPT ![c] = Outputs(c)]
    /\ nxt' = [nxt EXCEPT ![c] = 1]
    /\ cpc' = [cpc EXCEPT ![c] = "insert"]
    /\ UNCHANGED << inputVars, rows, resp, taskVars >>

\* variant: the error of a task is propagated and fails the call
InsertOrFail(c) ==
    /\ cpc[c] = "insert"
    /\ nxt[c] <= Len(results[c])
    /\ nxt' = [nxt EXCEPT ![c] = @ + 1]
    /\ \/ /\ results[c][nxt[c]] = "ok"
          /\ rows' = rows \cup { TaskAt(c, nxt[c]) }
          /\ resp' = [resp EXCEPT ![c] = Append(@, TaskAt(c, nxt[c]))]
          /\ UNCHANGED cpc
       \/ /\ results[c][nxt[c]] = "ok"
          /\ UNCHANGED << rows, resp, cpc >>
       \/ /\ results[c][nxt[c]] # "ok"
          /\ cpc' = [cpc EXCEPT ![c] = "error"]
          /\ UNCHANGED << rows, resp >>
    /\ UNCHANGED << inputVars, results, taskVars >>

\* variant: a row is inserted for every result, failed or not
InsertAll(c) ==
    /\ cpc[c] = "insert"
    /\ nxt[c] <= Len(results[c])
    /\ nxt' = [nxt EXCEPT ![c] = @ + 1]
    /\ rows' = rows \cup { TaskAt(c, nxt[c]) }
    /\ resp' = [resp EXCEPT ![c] = Append(@, TaskAt(c, nxt[c]))]
    /\ UNCHANGED << inputVars, cpc, results, taskVars >>

\* one iteration of `for image_result in fetched_images`
Insert(c) ==
    /\ cpc[c] = "insert"
    /\ nxt[c] <= Len(results[c])
    /\ nxt' = [nxt EXCEPT ![c] = @ + 1]
    /\ \/ /\ results[c][nxt[c]] = "ok"       \* the INSERT succeeds
          /\ rows' = rows \cup { TaskAt(c, nxt[c]) }
          /\ resp' = [resp EXCEPT ![c] = Append(@, TaskAt(c, nxt[c]))]
       \/ /\ results[c][nxt[c]] = "ok"       \* the INSERT fails, it is logged
          /\ UNCHANGED << rows, resp >>
       \/ /\ results[c][nxt[c]] # "ok"      \* the task failed, it is logged
          /\ UNCHANGED << rows, resp >>
    /\ UNCHANGED << inputVars, cpc, results, taskVars >>

\* Ok(Json(inserted_images))
Respond(c) ==
    /\ cpc[c] = "insert"
    /\ nxt[c] > Len(results[c])
    /\ cpc' = [cpc EXCEPT ![c] = "ok"]
    /\ UNCHANGED << inputVars, results, nxt, rows, resp, taskVars >>

\* ---------------------------------------------------------------- the system
Next ==
    \/ \E c \in Calls : CatalogFail(c)
    \/ \E c \in Calls : Spawn(c)
    \/ \E c \in Calls : JoinAll(c)
    \/ \E c \in Calls : Insert(c)
    \/ \E c \in Calls : Respond(c)
    \/ \E t \in Tasks : Acquire(t)
    \/ \E t \in Tasks : Request(t)
    \/ \E t \in Tasks : Create(t)
    \/ \E t \in Tasks : CopyChunk(t)
    \/ \E t \in Tasks : CopyEof(t)
    \/ \E t \in Tasks : CopyFail(t)
    \/ \E t \in Tasks : Finish(t)
    \/ \E t \in Tasks : Join(t)
    \/ \E t \in Tasks : \E n \in 1..MaxRead : Read(t, n)
    \/ \E t \in Tasks : FillBuf(t)
    \/ \E t \in Tasks : RecvChunk(t)
    \/ \E t \in Tasks : RecvClosed(t)
    \/ \E t \in Tasks : \E amount \in 1..MaxRead : Consume(t, amount)
    \/ \E t \in Tasks : Seek(t)
    \/ \E t \in Tasks : DecodeOk(t)
    \/ \E t \in Tasks : DecodeErr(t)

Spec == Init /\ [][Next]_vars

\* ------------------------------ the gallery client (frontend, lines 32-90)
serverVars == << images, owner, limit, callVars, taskVars >>

Fetches == 1..MaxFetches

\* the try_fetch tasks between loading = true and loading = false
InFlight == { f \in Fetches : fpc[f] \in {"locked", "request", "parse"} }

\* State::try_fetch is called (once per frame, and per visible row): rt.spawn
TryFetch(f) ==
    /\ fpc[f] = "idle"
    /\ fpc' = [fpc EXCEPT ![f] = "spawned"]
    /\ UNCHANGED << serverVars, page, gallery, loading, fpage, outcome >>

BusyNever == FALSE

\* the guard reads state.loading
Busy == loading

\* lines 53-59, under one write lock: return if loading, else loading = true
Guard(f) ==
    /\ fpc[f] = "spawned"
    /\ IF Busy
       THEN /\ fpc' = [fpc EXCEPT ![f] = "done"]
            /\ outcome' = [outcome EXCEPT ![f] = "skipped"]
            /\ UNCHANGED loading
       ELSE /\ loading' = TRUE
            /\ fpc' = [fpc EXCEPT ![f] = "locked"]
            /\ UNCHANGED outcome
    /\ UNCHANGED << serverVars, page, gallery, fpage >>

\* line 60: let State { limit, page, .. } = *state.read(), and the request is sent
ReadPage(f) ==
    /\ fpc[f] = "locked"
    /\ fpage' = [fpage EXCEPT ![f] = page]
    /\ fpc' = [fpc EXCEPT ![f] = "request"]
    /\ UNCHANGED << serverVars, page, gallery, loading, outcome >>

\* lines 74-78: reqwest::get fails
RequestError(f) ==
    /\ fpc[f] = "request"
    /\ loading' = FALSE
    /\ fpc' = [fpc EXCEPT ![f] = "done"]
    /\ outcome' = [outcome EXCEPT ![f] = "request error"]
    /\ UNCHANGED << serverVars, page, gallery, fpage >>

\* line 66: the response has arrived, its body is read as JSON
Responded(f) ==
    /\ fpc[f] = "request"
    /\ fpc' = [fpc EXCEPT ![f] = "parse"]
    /\ UNCHANGED << serverVars, page, gallery, loading, fpage, outcome >>

ParseErrorKeepsLoading(f) ==
    /\ fpc[f] = "parse"
    /\ fpc' = [fpc EXCEPT ![f] = "done"]
    /\ outcome' = [outcome EXCEPT ![f] = "parse error"]
    /\ UNCHANGED << serverVars, page, gallery, loading, fpage >>

\* lines 68-72: response.json fails
ParseError(f) ==
    /\ fpc[f] = "parse"
    /\ loading' = FALSE
    /\ fpc' = [fpc EXCEPT ![f] = "done"]
    /\ outcome' = [outcome EXCEPT ![f] = "parse error"]
    /\ UNCHANGED << serverVars, page, gallery, fpage >>

\* variant: the images are appended and the page counter stays
FetchedKeepsPage(f, k) ==
    /\ fpc[f] = "parse"
    /\ gallery' = gallery \o [i \in 1..k |-> fpage[f]]
    /\ loading' = FALSE
    /\ fpc' = [fpc EXCEPT ![f] = "done"]
    /\ outcome' = [outcome EXCEPT ![f] = "ok"]
    /\ UNCHANGED << serverVars, page, fpage >>

\* lines 80-86, under one write lock: the k images of the response are
\* appended, page += 1, loading = false
Fetched(f, k) ==
    /\ fpc[f] = "parse"
    /\ gallery' = gallery \o [i \in 1..k |-> fpage[f]]
    /\ page' = page + 1
    /\ loading' = FALSE
    /\ fpc' = [fpc EXCEPT ![f] = "done"]
    /\ outcome' = [outcome EXCEPT ![f] = "ok"]
    /\ UNCHANGED << serverVars, fpage >>

ClientInit ==
    /\ Init
    /\ images = << >>
    /\ limit = << << >> >>

ClientNext ==
    \/ \E f \in Fetches : TryFetch(f)
    \/ \E f \in Fetches : Guard(f)
    \/ \E f \in Fetches : ReadPage(f)
    \/ \E f \in Fetches : RequestError(f)
    \/ \E f \in Fetches : Responded(f)
    \/ \E f \in Fetches : ParseError(f)
    \/ \E f \in Fetches : \E k \in 0..MaxBatch : Fetched(f, k)

ClientSpec == ClientInit /\ [][ClientNext]_vars

\* a response that has arrived is read to its end or to an error: the runtime
\* keeps polling the task, and the body is finite
BodyRead == \E f \in Fetches : ParseError(f) \/ \E k \in 0..MaxBatch : Fetched(f, k)

FairClientSpec == ClientSpec /\ WF_vars(BodyRead)

\* ------------------------------------------------------------------- claims
Holders(c) == { t \in TasksOf(c) : holds[t] }

\* C1: within one fetch_images call of more descriptors than permits, at most
\* 5 ingestion tasks hold a permit of the call's semaphore at the same instant,
\* in every interleaving of the tasks.
AtMostPermitsHeld ==
    \A c \in Calls : Cardinality(Holders(c)) <= Permits

\* a page of more than 5 descriptors: 5 tasks hold a permit, another one waits
PoolExhausted ==
    \E c \in Calls :
        /\ Cardinality(TasksOf(c)) > Permits
        /\ Cardinality(Holders(c)) = Permits
        /\ \E t \in TasksOf(c) : pc[t] = "acquire"

\* C2, as claimed: a task whose download and disk write are complete and whose
\* decode worker is still running holds its permit.
PermitHeldForLifetime ==
    \A t \in Tasks : (pc[t] = "join" /\ dec[t] = "run") => holds[t]

\* C2, amended: a task holds its permit from its admission until its copy has
\* returned and the sentinel is sent; it holds none while it waits for its
\* decode worker, having released it exactly once.
PermitHeldUntilCopied ==
    \A t \in Tasks :
        /\ pc[t] \in {"request", "create", "copy", "finish"} => holds[t]
        /\ pc[t] = "join" => (~holds[t] /\ released[t] = 1)

\* a task waits, without a permit, for its decode worker that is still running
DecodingWithoutPermit ==
    \E t \in Tasks : pc[t] = "join" /\ dec[t] = "run" /\ ~holds[t] /\ got[t] # << >>

\* C3: a task releases its permit exactly once on every exit path, and once
\* all tasks of a batch have finished, all permits of the batch are available.
PermitReleasedOnce ==
    /\ \A t \in Tasks :
        /\ released[t] <= 1
        /\ released[t] = 1 => ~holds[t]
        /\ pc[t] = "done" => released[t] = 1
    /\ \A c \in Calls :
        (cpc[c] \in {"running", "insert", "ok"} /\ \A t \in TasksOf(c) : pc[t] = "done")
            => sem[c] = Permits

\* a batch has finished with a success and a failed decode, all permits are back
BatchDrained ==
    \E c \in Calls :
        /\ cpc[c] = "insert"
        /\ sem[c] = Permits
        /\ \E t, u \in TasksOf(c) :
            result[t] = "ok" /\ result[u] \in {"decode error", "copy error"}

\* C4: the list fetch_images returns has one entry per descriptor, and entry
\* i is what the task of descriptor i returned, whatever the order in which
\* the tasks completed; an entry is a success only if that descriptor's decode
\* succeeded and its file holds its body.
ResultsInOrder ==
    \A c \in Calls :
        cpc[c] \in {"insert", "ok"} =>
            /\ Len(results[c]) = Cardinality(TasksOf(c))
            /\ \A t \in TasksOf(c) :
                LET i == t - Cardinality({ u \in Tasks : owner[u] < c })
                IN  /\ results[c][i] = result[t]
                    /\ results[c][i] = "ok" =>
                           (images[t].up /\ dec[t] = "ok" /\ file[t] = BodyOf(t))

\* the second task completed first and failed, the first one succeeded
ResultsOutOfOrder ==
    \E c \in Calls :
        /\ cpc[c] \in {"insert", "ok"}
        /\ Len(results[c]) = 2
        /\ results[c][1] = "ok"
        /\ results[c][2] # "ok"
        /\ firstDone = TaskAt(c, 2)

\* C5, as claimed: when the stream has reached its end, the copy has returned
\* and the sentinel was sent, the queue of a decode worker that still holds
\* its Receiver was given the empty chunk exactly once.
SentinelExactlyOnce ==
    \A t \in Tasks : (pc[t] = "join" /\ receiver[t]) => sentinels[t] = 1

\* C6, as claimed: once the disk-write loop has reached end of stream, a
\* decode worker that waits in recv is never left without a chunk to receive
\* or a closed channel to wake it up.
DecoderNeverStuck ==
    \A t \in Tasks :
        (pc[t] = "join" /\ dec[t] = "run" /\ pend[t] # 0)
            => (queue[t] # << >> \/ ~sender[t])

\* C7: with no seek or consume in between, the bytes successive read calls
\* returned are the leading bytes of the network stream, in order, and a read
\* returns 0 only when every byte of the stream has been returned.
ReadsReturnStream ==
    \A t \in Tasks :
        ~moved[t] =>
            /\ IsPrefix(got[t], BodyOf(t))
            /\ lastRet[t] = 0 => got[t] = BodyOf(t)

\* a body that arrived in several chunks was read to its end, and read returned 0
StreamReadToEnd ==
    \E t \in Tasks :
        /\ ~moved[t]
        /\ Len(images[t].chunks) >= 2
        /\ lastRet[t] = 0
        /\ got[t] = BodyOf(t)

\* C8, as claimed: for a task that ends in success, the file and the chunks put
\* on the decode queue both hold exactly the bytes of the network stream.
FileAndQueueCarryStream ==
    \A t \in Tasks :
        result[t] = "ok" => (file[t] = BodyOf(t) /\ enq[t] = BodyOf(t))

\* C8, amended: for a task that ends in success the file holds exactly the
\* bytes of the network stream; the chunks put on the decode queue are its
\* leading bytes, and all of them if the decode worker still held its Receiver
\* when the copy returned.
FileCarriesStream ==
    \A t \in Tasks :
        /\ result[t] = "ok" =>
              (file[t] = BodyOf(t) /\ IsPrefix(enq[t], BodyOf(t)))
        /\ (pc[t] \in {"finish", "join"} /\ receiver[t]) =>
              (file[t] = BodyOf(t) /\ enq[t] = BodyOf(t))

\* a task succeeded although its decode worker returned before the last chunk
\* was forwarded: the file is complete, the queue was given a part only
SucceededOnPartialQueue ==
    \E t \in Tasks :
        /\ result[t] = "ok"
        /\ file[t] = BodyOf(t)
        /\ Len(enq[t]) < Len(BodyOf(t))

\* C9: a row is inserted and a success record returned for a descriptor only
\* if its task succeeded, that is its decode succeeded and its file holds its
\* body; a failed task has no row, and a file once created stays on disk.
RowOnlyIfBothSucceeded ==
    \A t \in Tasks :
        /\ (t \in rows \/ \E c \in Calls : \E i \in DOMAIN resp[c] : resp[c][i] = t)
              => (result[t] = "ok" /\ dec[t] = "ok" /\ file[t] = BodyOf(t))
        /\ result[t] \notin {"none", "ok"} => t \notin rows
        /\ (dec[t] # "none" \/ file[t] # << >>) => created[t]

\* the call has answered: one descriptor has its row, the other one failed in
\* its decode, has no row, and its file is still there
RowBesideOrphanFile ==
    \E c \in Calls : \E t, u \in TasksOf(c) :
        /\ cpc[c] = "ok"
        /\ t \in rows
        /\ resp[c] = << t >>
        /\ result[u] = "decode error"
        /\ created[u]
        /\ u \notin rows

\* C10, as claimed: a task that started both sinks produces its result only
\* after its decode worker has terminated.
ResultAfterBothSinks ==
    \A t \in Tasks : (pc[t] = "done" /\ dec[t] # "none") => Decoded(t)

\* C10, amended: a task that started both sinks produces its result only after
\* its copy has returned; if the copy succeeded, only after its decode worker
\* has terminated as well, whichever of the two ended first; if the copy failed
\* the task returns that error at once, and the decode worker may still run.
ResultAfterCopyThenDecode ==
    \A t \in Tasks :
        (pc[t] = "done" /\ dec[t] # "none") =>
            /\ result[t] # "copy error" => Decoded(t)
            /\ result[t] = "ok" => (dec[t] = "ok" /\ file[t] = BodyOf(t))

\* both ways: a task returned its copy error while its decode worker still
\* runs, and another one returned the error of its decode after its copy ended
ReturnedFromBothPaths ==
    /\ \E t \in Tasks : result[t] = "copy error" /\ dec[t] = "run"
    /\ \E t \in Tasks : result[t] = "decode error" /\ file[t] = BodyOf(t) /\ file[t] # << >>

\* the place of task t in the page of its call
IndexOf(t) == t - Cardinality({ u \in Tasks : owner[u] < owner[t] })

\* the download of task t did not fail: no request, create or copy error
Downloaded(t) ==
    result[t] \notin {"none", "request error", "create error", "copy error"}

\* C11: the failed decode of one task does not change the outcome of another:
\* in the list a batch returns, every descriptor whose own download and decode
\* succeeded is a success, whatever happened to its siblings.
FaultIsolation ==
    \A c \in Calls :
        cpc[c] \in {"insert", "ok"} =>
            \A t \in TasksOf(c) :
                (Downloaded(t) /\ dec[t] = "ok") => results[c][IndexOf(t)] = "ok"

\* the batch has returned: the decode of the first descriptor failed, the
\* second descriptor is a success and is the one reported
SuccessBesideFailedDecode ==
    \E c \in Calls :
        /\ cpc[c] = "ok"
        /\ Len(results[c]) = 2
        /\ results[c][1] = "decode error"
        /\ dec[TaskAt(c, 1)] = "err"
        /\ results[c][2] = "ok"
        /\ resp[c] = << TaskAt(c, 2) >>

\* C12: a failed forwarding to the decode queue does not abort the disk write:
\* while the copy runs no byte of the stream is lost to the file, and when it
\* has returned the file holds every byte, also when the Receiver was dropped.
WriteSurvivesDroppedReceiver ==
    \A t \in Tasks :
        /\ pc[t] = "copy" => file[t] \o Flat(net[t]) = BodyOf(t)
        /\ pc[t] \in {"finish", "join"} => file[t] = BodyOf(t)

\* the decode worker ended before the last chunk arrived: that chunk was not
\* queued, the copy has returned all the same and the file is complete
WroteAfterReceiverDropped ==
    \E t \in Tasks :
        /\ pc[t] \in {"finish", "join"}
        /\ ~receiver[t]
        /\ Len(enq[t]) < Len(BodyOf(t))
        /\ file[t] = BodyOf(t)
        /\ Len(images[t].chunks) >= 2

\* C13: when the copy of a task fails before the end of its stream, no
\* sentinel is queued and the Sender is dropped, so a decode worker waiting in
\* recv is never left blocked; with reads only, no read returns 0 (the
\* truncation is not taken for the end of the stream), and the task failed.
TruncationClosesQueue ==
    \A t \in Tasks :
        result[t] = "copy error" =>
            /\ sentinels[t] = 0
            /\ ~sender[t]
            /\ (dec[t] = "run" /\ pend[t] # 0 /\ queue[t] = << >>) => ENABLED RecvClosed(t)
            /\ ~moved[t] => lastRet[t] # 0
            /\ dec[t] = "eof" => (queue[t] = << >> /\ buffer[t] = enq[t])

\* the stream broke after a chunk: the decode worker read that chunk, drained
\* the queue and ended with UnexpectedEof; the task is a failure
DecoderSawTruncation ==
    \E t \in Tasks :
        /\ result[t] = "copy error"
        /\ dec[t] = "eof"
        /\ got[t] # << >>
        /\ Len(got[t]) < Len(BodyOf(t))

\* the bytes the decode side holds: Buffer.buffer and the chunks in the queue
Retained(t) == buffer[t] \o Flat(queue[t])

\* C14, as claimed: for a stream of more than one chunk the decode side holds
\* strictly fewer bytes than the stream has.
DecodeSideHoldsPart ==
    \A t \in Tasks :
        Len(images[t].chunks) > 1 => Len(Retained(t)) < Len(BodyOf(t))

\* C14, amended: while the decode worker is alive the decode side holds exactly
\* the bytes forwarded so far, each once and in order, whatever the decoder has
\* consumed: never more than the stream, and nothing is released.
DecodeSideHoldsAllForwarded ==
    \A t \in Tasks :
        receiver[t] =>
            /\ Retained(t) = enq[t]
            /\ IsPrefix(Retained(t), BodyOf(t))

\* a stream of several chunks was read to its last byte and Buffer still
\* holds all of it
WholeStreamBuffered ==
    \E t \in Tasks :
        /\ receiver[t]
        /\ Len(images[t].chunks) > 1
        /\ got[t] = BodyOf(t)
        /\ position[t] = Len(BodyOf(t))
        /\ buffer[t] = BodyOf(t)

\* C15: the call answers with an error status only when the catalog page could
\* not be obtained, and then no task was started, no file created and no row
\* inserted; when it answers with success, whatever failed per image, the
\* records returned are the images whose task succeeded and whose row was
\* inserted, in page order, and none for an empty page.
ErrorOnlyFromCatalog ==
    \A c \in Calls :
        /\ cpc[c] = "error" =>
              /\ resp[c] = << >>
              /\ \A t \in TasksOf(c) :
                    pc[t] = "unborn" /\ ~created[t] /\ ~holds[t] /\ t \notin rows
        /\ cpc[c] = "ok" =>
              /\ \A t \in TasksOf(c) : pc[t] = "done"
              /\ \A i \in DOMAIN resp[c] :
                    /\ resp[c][i] \in TasksOf(c) \cap rows
                    /\ result[resp[c][i]] = "ok"
                    /\ \A j \in DOMAIN resp[c] : i < j => resp[c][i] < resp[c][j]
              /\ TasksOf(c) = {} => resp[c] = << >>

\* the call answered with success and no record: of its two images one failed
\* in its task and the row of the other one could not be inserted
AnsweredWithNoRecord ==
    \E c \in Calls : \E t, u \in TasksOf(c) :
        /\ cpc[c] = "ok"
        /\ resp[c] = << >>
        /\ rows = {}
        /\ result[t] = "ok"
        /\ result[u] \notin {"none", "ok"}

\* the tasks of call c that were started
Started(c) == { t \in TasksOf(c) : pc[t] # "unborn" }

\* C16, as claimed: a call with limit L, after defaulting and clamping, starts
\* at most L ingestion tasks and returns at most L records, whatever number of
\* descriptors the catalog answers with.
IngestsAtMostLimit ==
    \A c \in Calls :
        /\ Cardinality(Started(c)) <= Limit(c)
        /\ Len(resp[c]) <= Limit(c)

\* C17: of the try_fetch tasks spawned, at most one is at any moment between
\* setting loading and clearing it, and a task that finds loading set ends
\* without a request and without changing page, images or loading.
SingleFlight ==
    /\ [](Cardinality(InFlight) <= 1)
    /\ [][\A f \in Fetches :
            (fpc[f] = "spawned" /\ loading /\ fpc'[f] # "spawned")
                => /\ fpc'[f] = "done"
                   /\ fpage'[f] = -1
                   /\ UNCHANGED << page, gallery, loading >>]_vars

\* a task was turned away while another one had its request out
SkippedWhileInFlight ==
    \E f, g \in Fetches :
        /\ outcome[f] = "skipped"
        /\ fpc[g] = "request"

\* C18: loading is set exactly while a try_fetch task is between its guard
\* and its exit, so every exit (request error, parse error, success) has reset
\* it; and a response that has arrived leads to loading = false.
LoadingReset ==
    /\ [](loading <=> InFlight # {})
    /\ \A f \in Fetches : (fpc[f] = "parse") ~> ~loading

\* after a request error and a parse error, a later try_fetch has proceeded
ProceededAfterErrors ==
    \E f, g, h \in Fetches :
        /\ outcome[f] = "request error"
        /\ outcome[g] = "parse error"
        /\ fpc[h] = "request"
        /\ page = 0

\* C19: fill_buf returns exactly the bytes of the stream from the current
\* position to the end of what was received, so that after consume(n) the
\* next fill_buf starts n bytes further on.
FillBufFromPosition ==
    \A t \in Tasks :
        filled[t] # << >> =>
            filled[t][1].slice =
                SubSeq(BodyOf(t), filled[t][1].at + 1, filled[t][1].have)

\* C20: whatever position a seek has set, Buffer::read does not panic: no
\* decode worker ends in a panic of the subtraction buffer.len() - position.
ReadNeverPanics ==
    \A t \in Tasks : dec[t] # "panic"

\* C21: when two calls of the handler overlap, the tasks holding a permit at
\* the same instant, counted over both calls, are at most 5.
AtMostPermitsHeldOverall ==
    Cardinality({ t \in Tasks : holds[t] }) <= Permits

\* the try_fetch tasks that completed successfully
Succeeded == { f \in Fetches : outcome[f] = "ok" }

\* C22: page is the number of successful fetches, whose requests carried the
\* pages 0 .. page - 1, each once; a request in flight carries the current
\* page; a success appends its images and adds one to page, and a failure
\* changes neither.
PageCountsFetches ==
    /\ [](/\ page = Cardinality(Succeeded)
          /\ { fpage[f] : f \in Succeeded } = 0..(page - 1)
          /\ \A f \in Fetches : fpc[f] \in {"request", "parse"} => fpage[f] = page
          /\ \A i \in 1..(Len(gallery) - 1) : gallery[i] <= gallery[i + 1]
          /\ \A i \in 1..Len(gallery) : gallery[i] < page)
    /\ [][\A f \in Fetches :
            (f \in InFlight /\ fpc'[f] = "done") =>
                IF outcome'[f] = "ok"
                THEN /\ page' = page + 1
                     /\ Len(gallery') >= Len(gallery)
                     /\ SubSeq(gallery', 1, Len(gallery)) = gallery
                     /\ \A i \in (Len(gallery) + 1)..Len(gallery') :
                            gallery'[i] = fpage[f]
                ELSE UNCHANGED << page, gallery >>]_vars

\* two pages were fetched, with images, and another fetch failed
TwoPagesAndAFailure ==
    /\ page = 2
    /\ \E f \in Fetches : outcome[f] \in {"request error", "parse error"}
    /\ \E i, j \in 1..Len(gallery) : gallery[i] = 0 /\ gallery[j] = 1

====
